---- MODULE Spec2Model ----
(***************************************************************************)
(* Model of src/models/EntryType.js: the definition-time validation of a   *)
(* content type (EntryType.$beforeValidate, driven by the constraint       *)
(* tables at the top of the file) and the value-time validation of an      *)
(* entry (EntryType.validateEntryFields).                                  *)
(*                                                                         *)
(* JavaScript values are tagged records: [type |-> "string", str |-> s],   *)
(* [type |-> "number", tenths |-> k] (the number k/10, so that 5.5 is      *)
(* representable), [type |-> "boolean", bool |-> b], [type |-> "array",    *)
(* items |-> seq of values] and [type |-> "undefined"].  A JavaScript      *)
(* object is a function from its own keys to such values.                  *)
(***************************************************************************)
EXTENDS Integers, Sequences, FiniteSets, TLC

VARIABLES
  json,         \* the definition handed to $beforeValidate
  outcome,      \* what $beforeValidate did: returned or threw
  pc,           \* position of the model validation ($beforeValidate, then jsonSchema)
  fields,       \* this.fields of the stored EntryType used by validateEntryFields
  entry,        \* the `fields` argument of validateEntryFields: name -> value
  projectId,    \* the projectId argument of validateEntryFields
  constraints,  \* the ruleset validateEntryFields built
  pending,      \* attributes whose asynchronous validator has not settled yet
  errors,       \* violations collected by validate.async: set of <<attribute, validator>>
  failed,       \* asynchronous validators whose lookup threw or rejected
  result,       \* how the promise returned by validateEntryFields settled
  vpc           \* position of the value-time validation

vars == <<json, outcome, pc, fields, entry, projectId, constraints, pending, errors,
          failed, result, vpc>>

defVars == <<json, outcome, pc>>
valVars == <<fields, entry, projectId, constraints, pending, errors, failed, result, vpc>>

---------------------------------------------------------------------------
(* JavaScript values *)

Undefined == [type |-> "undefined"]
Str(s) == [type |-> "string", str |-> s]
Num(k) == [type |-> "number", tenths |-> 10 * k]
Frac(t) == [type |-> "number", tenths |-> t]
Bool(b) == [type |-> "boolean", bool |-> b]
Arr(seq) == [type |-> "array", items |-> seq]

\* obj[attr] of JavaScript: undefined for a key the object does not have
Get(obj, attr) == IF attr \in DOMAIN obj THEN obj[attr] ELSE Undefined

Range(seq) == {seq[i] : i \in DOMAIN seq}

\* Object.assign({}, a, b)
ObjectAssign(a, b) ==
  [k \in DOMAIN a \cup DOMAIN b |-> IF k \in DOMAIN b THEN b[k] ELSE a[k]]

---------------------------------------------------------------------------
(* The constraint tables of src/models/EntryType.js.  `presence: true` is  *)
(* written [allowEmpty |-> TRUE] and `numericality: true` is written       *)
(* [onlyInteger |-> FALSE]: the options' default values made explicit.     *)

entryTypeConstraints ==
  [name        |-> [presence |-> [allowEmpty |-> FALSE], length |-> [minimum |-> 4]],
   description |-> [length |-> [minimum |-> 0]],
   metadata    |-> [length |-> [minimum |-> 0]],
   projectId   |-> [presence |-> [allowEmpty |-> TRUE], numericality |-> [onlyInteger |-> TRUE]],
   userId      |-> [presence |-> [allowEmpty |-> TRUE], numericality |-> [onlyInteger |-> TRUE]],
   fields      |-> [presence |-> [allowEmpty |-> TRUE]]]

commonFieldConstraints ==
  [fieldType   |-> [presence |-> [allowEmpty |-> FALSE]],
   name        |-> [presence |-> [allowEmpty |-> TRUE], length |-> [minimum |-> 4, maximum |-> 64]],
   label       |-> [presence |-> [allowEmpty |-> TRUE], length |-> [minimum |-> 4, maximum |-> 64]],
   description |-> [presence |-> [allowEmpty |-> TRUE]],
   required    |-> [boolean |-> TRUE, presence |-> [allowEmpty |-> FALSE]],
   disabled    |-> [boolean |-> TRUE, presence |-> [allowEmpty |-> FALSE]]]

\* the minLength / maxLength pair shared by the TEXT, MEDIA, LINK and LIST tables
LengthPair(minUpper, maxUpper) ==
  [minLength |-> [presence |-> [allowEmpty |-> TRUE],
                  numericality |-> [greaterThanOrEqualTo |-> 0, lessThanOrEqualTo |-> minUpper,
                                    onlyInteger |-> TRUE],
                  lessThanAttribute |-> "maxLength"],
   maxLength |-> [presence |-> [allowEmpty |-> TRUE],
                  numericality |-> [greaterThanOrEqualTo |-> 1, lessThanOrEqualTo |-> maxUpper,
                                    onlyInteger |-> TRUE]]]

FormatWithin(formats) ==
  [format |-> [presence |-> [allowEmpty |-> TRUE],
               inclusion |-> [within |-> formats, message |-> "invalid"]]]

textFieldConstraints ==
  ObjectAssign(LengthPair(999, 1000), FormatWithin({"plaintext", "uri", "email"}))

longTextFieldConstraints ==
  ObjectAssign(LengthPair(29999, 50000), FormatWithin({"plaintext", "markdown"}))

booleanFieldConstraints ==
  [labelTrue  |-> [presence |-> [allowEmpty |-> TRUE], length |-> [minimum |-> 1, maximum |-> 32]],
   labelFalse |-> [presence |-> [allowEmpty |-> TRUE], length |-> [minimum |-> 1, maximum |-> 32]]]

numberFieldConstraints ==
  ObjectAssign(
    [minValue |-> [numericality |-> [onlyInteger |-> FALSE], lessThanAttribute |-> "maxValue"],
     maxValue |-> [numericality |-> [onlyInteger |-> FALSE]]],
    FormatWithin({"number", "integer"}))

dateFieldConstraints == FormatWithin({"datetime", "date"})

choiceFieldConstraints ==
  ObjectAssign(
    [choices |-> [presence |-> [allowEmpty |-> TRUE],
                  arrayLength |-> [minimum |-> 2, maximum |-> 128],
                  uniqueArray |-> TRUE]],
    FormatWithin({"single", "multiple"}))

colorFieldConstraints == FormatWithin({"rgb", "rgba"})

\* the media table with the ordering rule of minLength left out
mediaFieldConstraintsUnordered ==
  [a \in DOMAIN LengthPair(999, 1000) |->
     [v \in DOMAIN LengthPair(999, 1000)[a] \ {"lessThanAttribute"} |->
        LengthPair(999, 1000)[a][v]]]

mediaFieldConstraints == LengthPair(999, 1000)

linkFieldConstraints == LengthPair(999, 1000)

listFieldConstraints == LengthPair(999, 1000)

fieldTypeConstraints ==
  [TEXT     |-> ObjectAssign(commonFieldConstraints, textFieldConstraints),
   LONGTEXT |-> ObjectAssign(commonFieldConstraints, longTextFieldConstraints),
   BOOLEAN  |-> ObjectAssign(commonFieldConstraints, booleanFieldConstraints),
   NUMBER   |-> ObjectAssign(commonFieldConstraints, numberFieldConstraints),
   DATE     |-> ObjectAssign(commonFieldConstraints, dateFieldConstraints),
   CHOICE   |-> ObjectAssign(commonFieldConstraints, choiceFieldConstraints),
   COLOR    |-> ObjectAssign(commonFieldConstraints, colorFieldConstraints),
   MEDIA    |-> ObjectAssign(commonFieldConstraints, mediaFieldConstraints),
   LINK     |-> ObjectAssign(commonFieldConstraints, linkFieldConstraints),
   LIST     |-> ObjectAssign(commonFieldConstraints, listFieldConstraints)]

\* Object.keys(fieldTypeConstraints)
fieldTypes == DOMAIN fieldTypeConstraints

---------------------------------------------------------------------------
(* validate.js as used through ../utils/validate: every validator but      *)
(* presence passes an undefined value; a violation is the pair             *)
(* <<attribute, validator>>.                                               *)

IsDefined(value) == value.type # "undefined"

\* v.isEmpty: undefined, the empty string, the empty array
IsEmpty(value) ==
  \/ value.type = "undefined"
  \/ value.type = "string" /\ value.str = ""
  \/ value.type = "array" /\ value.items = <<>>

\* value.length of JavaScript: -1 stands for a value without a length
LengthOf(value) ==
  CASE value.type = "string" -> Len(value.str)
    [] value.type = "array"  -> Len(value.items)
    [] OTHER                 -> -1

\* the is / minimum / maximum options of the length and arrayLength validators
OutsideLength(n, options) ==
  \/ "is" \in DOMAIN options /\ n # options.is
  \/ "minimum" \in DOMAIN options /\ n < options.minimum
  \/ "maximum" \in DOMAIN options /\ n > options.maximum

PresenceViolated(value, options) ==
  IF options.allowEmpty THEN ~IsDefined(value) ELSE IsEmpty(value)

LengthViolated(value, options) ==
  IsDefined(value) /\ (LengthOf(value) < 0 \/ OutsideLength(LengthOf(value), options))

NumericalityViolated(value, options) ==
  /\ IsDefined(value)
  /\ \/ value.type # "number"
     \/ "onlyInteger" \in DOMAIN options /\ options.onlyInteger /\ value.tenths % 10 # 0
     \/ "greaterThanOrEqualTo" \in DOMAIN options
          /\ value.tenths < 10 * options.greaterThanOrEqualTo
     \/ "lessThanOrEqualTo" \in DOMAIN options
          /\ value.tenths > 10 * options.lessThanOrEqualTo

InclusionViolated(value, options) ==
  IsDefined(value) /\ ~(value.type = "string" /\ value.str \in options.within)

\* custom validator: the attribute's value must be strictly less than the
\* value of the attribute named by the option, on the same object
LessThanAttributeViolated(value, options, attributes) ==
  LET other == IF options \in DOMAIN attributes THEN attributes[options] ELSE Undefined
  IN  /\ value.type = "number"
      /\ other.type = "number"
      /\ ~(value.tenths < other.tenths)

\* custom validator: the value must be a boolean
BooleanViolated(value) == IsDefined(value) /\ value.type # "boolean"

\* custom validator: the value must be an array whose length is within the options
ArrayLengthViolated(value, options) ==
  IsDefined(value) /\ (value.type # "array" \/ OutsideLength(Len(value.items), options))

\* custom validator: no element of the array occurs twice
UniqueArrayViolated(value) ==
  /\ IsDefined(value)
  /\ value.type = "array"
  /\ Cardinality({value.items[i] : i \in DOMAIN value.items}) # Len(value.items)

\* custom validator: every element of the array is one of options.choices
ChoicesUnionViolated(value, options) ==
  /\ IsDefined(value)
  /\ \/ value.type # "array"
     \/ \E i \in DOMAIN value.items :
          ~(value.items[i].type = "string"
            /\ value.items[i].str \in {options.choices[j] : j \in DOMAIN options.choices})

\* custom validator: the value is an array of strings
ArrayOfStringsViolated(value) ==
  /\ IsDefined(value)
  /\ \/ value.type # "array"
     \/ \E i \in DOMAIN value.items : value.items[i].type # "string"

\* the strings of the model's inputs that the url, email, datetime and date
\* validators and the two colour patterns accept
Wellformed(syntax) ==
  CASE syntax = "url"                -> {"http://a.io"}
    [] syntax = "email"              -> {"a@b.io"}
    [] syntax = "datetime"           -> {"2018-01-01T10:00:00Z", "2018-01-01"}
    [] syntax = "date"               -> {"2018-01-01"}
    [] syntax = "^#[0-9a-fA-F]{6}$"  -> {"#a1B2c3"}
    [] syntax = "^#[0-9a-fA-F]{8}$"  -> {"#a1B2c3d4"}
    [] OTHER                         -> {}

SyntaxViolated(value, syntax) ==
  IsDefined(value) /\ ~(value.type = "string" /\ value.str \in Wellformed(syntax))

\* the validators that settle asynchronously (custom: media, entries)
AsyncValidators == {"media", "entries"}

\* one validator applied to one attribute of `attributes`
Violated(validator, options, attr, attributes) ==
  LET value == IF attr \in DOMAIN attributes THEN attributes[attr] ELSE Undefined
  IN  CASE validator = "presence"          -> PresenceViolated(value, options)
        [] validator = "length"            -> LengthViolated(value, options)
        [] validator = "numericality"      -> NumericalityViolated(value, options)
        [] validator = "inclusion"         -> InclusionViolated(value, options)
        [] validator = "lessThanAttribute" -> LessThanAttributeViolated(value, options, attributes)
        [] validator = "boolean"           -> BooleanViolated(value)
        [] validator = "arrayLength"       -> ArrayLengthViolated(value, options)
        [] validator = "uniqueArray"       -> UniqueArrayViolated(value)
        [] validator = "choicesUnion"      -> ChoicesUnionViolated(value, options)
        [] validator = "arrayOfStrings"    -> ArrayOfStringsViolated(value)
        [] validator = "format"            -> SyntaxViolated(value, options.pattern)
        [] validator \in {"url", "email", "datetime", "date"}
                                           -> SyntaxViolated(value, validator)
        [] OTHER                           -> FALSE

\* validate(attributes, constraints): the violations, {} for `undefined`
Validate(attributes, constraintSet) ==
  {av \in UNION {{<<a, v>> : v \in DOMAIN constraintSet[a]} : a \in DOMAIN constraintSet} :
     Violated(av[2], constraintSet[av[1]][av[2]], av[1], attributes)}

\* validate.single(value, constraints)
ValidateSingle(value, constraintSet) ==
  Validate([a \in {"single"} |-> value], [a \in {"single"} |-> constraintSet])

---------------------------------------------------------------------------
(* Definitions handed to $beforeValidate.  A definition and its fields are *)
(* records of plain values; AsObject gives each attribute its JavaScript   *)
(* type.                                                                   *)

StringAttrs == {"name", "label", "description", "metadata", "fieldType", "format",
                "labelTrue", "labelFalse"}
NumberAttrs == {"minLength", "maxLength", "minValue", "maxValue", "projectId", "userId"}
BooleanAttrs == {"required", "disabled"}

JsValue(attr, raw) ==
  CASE attr \in StringAttrs  -> Str(raw)
    [] attr \in NumberAttrs  -> Num(raw)
    [] attr \in BooleanAttrs -> Bool(raw)
    [] attr = "choices"      -> Arr([i \in DOMAIN raw |-> Str(raw[i])])
    [] OTHER                 -> Arr(raw)

AsObject(rec) == [attr \in DOMAIN rec |-> JsValue(attr, rec[attr])]

\* longest sequence of fields of an input definition
MaxFields == 2

UnknownTags == {"BOGUS", "text"}
LengthKinds == {"TEXT", "LONGTEXT", "MEDIA", "LINK", "LIST"}
LengthInputs == {<<0, 10>>, <<5, 5>>, <<7, 3>>}

Common(tag, name) ==
  [fieldType |-> tag, name |-> name, label |-> "Label", description |-> "",
   required |-> FALSE, disabled |-> FALSE]

WithLengths(rec, pair) == ObjectAssign(rec, [minLength |-> pair[1], maxLength |-> pair[2]])

WithFormat(rec, format) == ObjectAssign(rec, [format |-> format])

\* every kind, with the attribute values tried for it
AllKinds(n) ==
  UNION {
    {WithFormat(WithLengths(Common(k, n), p), "plaintext") :
       k \in {"TEXT", "LONGTEXT"}, p \in LengthInputs},
    {WithFormat(WithLengths(Common("TEXT", n), <<0, 1001>>), "uri")},
    {WithLengths(Common(k, n), p) : k \in {"MEDIA", "LINK", "LIST"}, p \in LengthInputs},
    {WithFormat(ObjectAssign(Common("NUMBER", n), [minValue |-> p[1], maxValue |-> p[2]]),
                "integer") : p \in {<<0, 5>>, <<5, 5>>}},
    {ObjectAssign(Common("BOOLEAN", n), [labelTrue |-> "Yes", labelFalse |-> "No"])},
    {WithFormat(Common("DATE", n), f) : f \in {"date", "time"}},
    {WithFormat(ObjectAssign(Common("CHOICE", n), [choices |-> <<"a", "b", "c">>]), "single")},
    {WithFormat(Common("COLOR", n), "rgb")},
    {Common(k, n) : k \in UnknownTags}
  }

\* the kinds tried under the other names
SomeKinds(n) ==
  {f \in AllKinds(n) : f.fieldType \in {"TEXT", "MEDIA", "NUMBER", "BOOLEAN"} \cup UnknownTags}

FieldInputs == AllKinds("title") \cup SomeKinds("body") \cup SomeKinds("abc")

NameInputs ==
  {"", "abc", "blog",
   "naaaaaaaaaaaaaaaaaaaaaaaaaaaaaaaaaaaaaaaaaaaaaaaaaaaaaaaaaaaaaaa",
   "naaaaaaaaaaaaaaaaaaaaaaaaaaaaaaaaaaaaaaaaaaaaaaaaaaaaaaaaaaaaaaaa"}

Definition(name, fs) == [name |-> name, projectId |-> 1, userId |-> 1, fields |-> fs]

---------------------------------------------------------------------------
(* EntryType.$beforeValidate *)

NoFieldErrors == [k \in {} |-> {}]

Returned == [threw |-> FALSE, message |-> "", errors |-> {}, fields |-> NoFieldErrors]

\* new ValidationError(message), with err.errors and err.errors.fields
ValidationError(message, errs, fieldErrors) ==
  [threw |-> TRUE, message |-> message, errors |-> errs, fields |-> fieldErrors]

\* _.uniq(fieldNames).length
UniqLength(fieldNames) == Cardinality({fieldNames[i] : i \in DOMAIN fieldNames})

\* the loop with an unknown fieldType recorded as one more field error
RECURSIVE ForEachFieldRecording(_, _, _)
ForEachFieldRecording(fs, i, fieldErrors) ==
  IF i > Len(fs)
  THEN IF DOMAIN fieldErrors # {}
       THEN ValidationError("", {}, fieldErrors)
       ELSE Returned
  ELSE LET field == fs[i]
           errs == IF field.fieldType \in fieldTypes
                   THEN Validate(AsObject(field), fieldTypeConstraints[field.fieldType])
                   ELSE {<<"fieldType", "inclusion">>}
       IN  ForEachFieldRecording(fs, i + 1,
             IF errs # {}
             THEN [k \in DOMAIN fieldErrors \cup {field.name} |->
                     IF k = field.name THEN errs ELSE fieldErrors[k]]
             ELSE fieldErrors)

\* the loop throwing at the first field that has errors
RECURSIVE ForEachFieldFailFast(_, _, _)
ForEachFieldFailFast(fs, i, fieldErrors) ==
  IF i > Len(fs)
  THEN Returned
  ELSE LET field == fs[i]
       IN  IF field.fieldType \notin fieldTypes
           THEN ValidationError("'" \o field.fieldType \o "' is not a valid field type",
                                {}, NoFieldErrors)
           ELSE LET errs == Validate(AsObject(field), fieldTypeConstraints[field.fieldType])
                IN  IF errs # {}
                    THEN ValidationError("", {}, [k \in {field.name} |-> errs])
                    ELSE ForEachFieldFailFast(fs, i + 1, fieldErrors)

\* the body of json.fields.forEach, from field i on
RECURSIVE ForEachField(_, _, _)
ForEachField(fs, i, fieldErrors) ==
  IF i > Len(fs)
  THEN IF DOMAIN fieldErrors # {}
       THEN ValidationError("", {}, fieldErrors)
       ELSE Returned
  ELSE LET field == fs[i]
           fieldTypeError ==
             ValidateSingle(Get(AsObject(field), "fieldType"),
                            [inclusion |-> [within |-> fieldTypes]])
       IN  IF fieldTypeError # {}
           THEN ValidationError("'" \o field.fieldType \o "' is not a valid field type",
                                {}, NoFieldErrors)
           ELSE LET errs == Validate(AsObject(field), fieldTypeConstraints[field.fieldType])
                IN  ForEachField(fs, i + 1,
                      IF errs # {}
                      THEN [k \in DOMAIN fieldErrors \cup {field.name} |->
                              IF k = field.name THEN errs ELSE fieldErrors[k]]
                      ELSE fieldErrors)

\* $beforeValidate with the uniqueness check made after the per-field pass
beforeValidateFieldsFirst(j) ==
  LET errs == Validate(AsObject(j), entryTypeConstraints)
      fieldNames == [i \in DOMAIN j.fields |-> j.fields[i].name]
      perField == ForEachField(j.fields, 1, NoFieldErrors)
  IN  IF errs # {}
      THEN ValidationError("", errs, NoFieldErrors)
      ELSE IF perField.threw
           THEN perField
           ELSE IF Len(fieldNames) # UniqLength(fieldNames)
                THEN ValidationError("Field names must be unique", {}, NoFieldErrors)
                ELSE Returned

beforeValidate(j) ==
  LET errs == Validate(AsObject(j), entryTypeConstraints)
      fieldNames == [i \in DOMAIN j.fields |-> j.fields[i].name]
  IN  IF errs # {}
      THEN ValidationError("", errs, NoFieldErrors)
      ELSE IF Len(fieldNames) # UniqLength(fieldNames)
           THEN ValidationError("Field names must be unique", {}, NoFieldErrors)
           ELSE ForEachField(j.fields, 1, NoFieldErrors)

\* the keys of commonFieldAttributes in EntryType.jsonSchema
commonFieldAttributes == {"name", "label", "description", "required", "disabled"}

\* The shapes of fields.items.oneOf: the tag of the fieldType pattern '^TAG$',
\* the keys of properties, additionalProperties and the required list.
textShape ==
  [pattern |-> "TEXT",
   properties |-> {"fieldType", "minLength", "maxLength", "format"} \cup commonFieldAttributes,
   additionalProperties |-> FALSE,
   required |-> <<"fieldType", "name", "label", "description", "required", "disabled",
                  "minLength", "maxLength", "format">>]

longTextShape ==
  [pattern |-> "LONGTEXT",
   properties |-> {"fieldType", "minLength", "maxLength", "format"} \cup commonFieldAttributes,
   additionalProperties |-> FALSE,
   required |-> <<"fieldType", "name", "label", "description", "required", "disabled",
                  "minLength", "maxLength", "format">>]

booleanShape ==
  [pattern |-> "BOOLEAN",
   properties |-> {"fieldType", "labelTrue", "labelFalse"} \cup commonFieldAttributes,
   additionalProperties |-> FALSE,
   required |-> <<"fieldType", "name", "label", "description", "required", "disabled",
                  "labelTrue", "labelFalse">>]

numberShape ==
  [pattern |-> "NUMBER",
   properties |-> {"fieldType", "minValue", "maxValue", "format"} \cup commonFieldAttributes,
   additionalProperties |-> FALSE,
   required |-> <<"fieldType", "name", "label", "description", "required", "disabled",
                  "minValue", "maxValue", "format">>]

\* the DATE shape with format left out of its required list
dateShapeFormatOptional ==
  [pattern |-> "DATE",
   properties |-> {"fieldType", "format"} \cup commonFieldAttributes,
   additionalProperties |-> FALSE,
   required |-> <<"fieldType", "name", "label", "description", "required", "disabled">>]

dateShape ==
  [pattern |-> "DATE",
   properties |-> {"fieldType", "format"} \cup commonFieldAttributes,
   additionalProperties |-> FALSE,
   required |-> <<"fieldType", "name", "label", "description", "required", "disabled",
                  "format">>]

choiceShape ==
  [pattern |-> "CHOICE",
   properties |-> {"fieldType", "choices", "format"} \cup commonFieldAttributes,
   additionalProperties |-> FALSE,
   required |-> <<"fieldType", "name", "label", "description", "required", "disabled",
                  "choices", "format">>]

colorShape ==
  [pattern |-> "COLOR",
   properties |-> {"fieldType", "format"} \cup commonFieldAttributes,
   additionalProperties |-> FALSE,
   required |-> <<"fieldType", "name", "label", "description", "required", "disabled",
                  "format">>]

mediaShape ==
  [pattern |-> "MEDIA",
   properties |-> {"fieldType", "minLength", "maxLength"} \cup commonFieldAttributes,
   additionalProperties |-> FALSE,
   required |-> <<"fieldType", "name", "label", "description", "required", "disabled",
                  "minLength", "maxLength">>]

linkShape ==
  [pattern |-> "LINK",
   properties |-> {"fieldType", "minLength", "maxLength"} \cup commonFieldAttributes,
   additionalProperties |-> FALSE,
   required |-> <<"fieldType", "name", "label", "description", "required", "disabled",
                  "minLength", "maxLength">>]

listShape ==
  [pattern |-> "LIST",
   properties |-> {"fieldType", "minLength", "maxLength"} \cup commonFieldAttributes,
   additionalProperties |-> FALSE,
   required |-> <<"fieldType", "name", "label", "description", "required", "disabled",
                  "minLength", "maxLength">>]

oneOf ==
  <<textShape, longTextShape, booleanShape, numberShape, dateShape,
    choiceShape, colorShape, mediaShape, linkShape, listShape>>

\* a field object against one shape: the fieldType pattern, the required
\* attributes, and no attribute beyond the declared properties
MatchesShape(field, shape) ==
  /\ field.fieldType = shape.pattern
  /\ Range(shape.required) \subseteq DOMAIN field
  /\ (~shape.additionalProperties) => DOMAIN field \subseteq shape.properties

\* oneOf: the field matches one shape and no other
SchemaItemOk(field) ==
  Cardinality({i \in DOMAIN oneOf : MatchesShape(field, oneOf[i])}) = 1

\* the fields property of EntryType.jsonSchema
SchemaFieldsOk(j) == \A i \in DOMAIN j.fields : SchemaItemOk(j.fields[i])

\* the name property of EntryType.jsonSchema: a string of 1 to 64 characters
SchemaNameOk(j) == Len(j.name) >= 1 /\ Len(j.name) <= 64

NoOutcome == [threw |-> FALSE, message |-> "not run", errors |-> {}, fields |-> NoFieldErrors]

\* the model validation: $beforeValidate, then the jsonSchema
BeforeValidate ==
  /\ pc = "start"
  /\ outcome' = beforeValidate(json)
  /\ pc' = IF outcome'.threw THEN "rejected" ELSE "schema"
  /\ UNCHANGED <<json, valVars>>

JsonSchemaValidate ==
  /\ pc = "schema"
  /\ pc' = IF SchemaNameOk(json) /\ SchemaFieldsOk(json) THEN "accepted" ELSE "rejected"
  /\ UNCHANGED <<json, outcome, valVars>>

---------------------------------------------------------------------------
(* EntryType.validateEntryFields *)

NoConstraints == [k \in {} |-> TRUE]

\* the presence rule added to every field
PresenceConstraintAlways(field) == [presence |-> [allowEmpty |-> TRUE]]

\* if (field.required) fieldConstraints.presence = true
PresenceConstraint(field) ==
  IF field.required THEN [presence |-> [allowEmpty |-> TRUE]] ELSE NoConstraints

\* the branch taken for fieldType 'TEXT'
TextConstraints(field) ==
  IF field.format = "uri" THEN [url |-> TRUE]
  ELSE IF field.format = "email" THEN [email |-> TRUE]
  ELSE NoConstraints

\* the branch written for fieldType 'TEXT' or 'LONGTEXT'
LengthConstraints(field) ==
  [length |-> [minimum |-> field.minLength, maximum |-> field.maxLength]]

DateConstraints(field) ==
  IF field.format = "datetime" THEN [datetime |-> TRUE]
  ELSE IF field.format = "date" THEN [date |-> TRUE]
  ELSE NoConstraints

BooleanConstraints(field) == [boolean |-> TRUE]

\* the numeric rule with the integer restriction whatever the format
NumberConstraintsIntegerOnly(field) ==
  [numericality |-> [greaterThanOrEqualTo |-> field.minValue,
                     lessThanOrEqualTo |-> field.maxValue,
                     onlyInteger |-> TRUE]]

NumberConstraints(field) ==
  [numericality |->
     ObjectAssign([greaterThanOrEqualTo |-> field.minValue,
                   lessThanOrEqualTo |-> field.maxValue],
                  IF field.format = "integer" THEN [onlyInteger |-> TRUE] ELSE NoConstraints)]

\* the membership rule added under format single only
ChoiceConstraintsSingleOnly(field) ==
  IF field.format = "single"
  THEN [choicesUnion |-> [choices |-> field.choices], arrayLength |-> [is |-> 1]]
  ELSE IF field.format = "multiple"
       THEN [arrayLength |-> [minimum |-> 1], uniqueArray |-> TRUE]
       ELSE NoConstraints

ChoiceConstraints(field) ==
  ObjectAssign([choicesUnion |-> [choices |-> field.choices]],
               IF field.format = "single" THEN [arrayLength |-> [is |-> 1]]
               ELSE IF field.format = "multiple"
                    THEN [arrayLength |-> [minimum |-> 1], uniqueArray |-> TRUE]
                    ELSE NoConstraints)

ColorConstraints(field) ==
  IF field.format = "rgb"
  THEN [format |-> [pattern |-> "^#[0-9a-fA-F]{6}$",
                    message |-> "invalid rgb hex value (should be formatted #000000)"]]
  ELSE IF field.format = "rgba"
       THEN [format |-> [pattern |-> "^#[0-9a-fA-F]{8}$",
                         message |-> "invalid rgba hex value (should be formatted #00000000)"]]
       ELSE NoConstraints

ArrayLengthConstraint(field) ==
  [arrayLength |-> [minimum |-> field.minLength, maximum |-> field.maxLength]]

\* the MEDIA branch with the referential rule of the LINK branch
MediaConstraintsEntries(field, project) ==
  ObjectAssign([entries |-> [projectId |-> project]], ArrayLengthConstraint(field))

MediaConstraints(field, project) ==
  ObjectAssign([media |-> [projectId |-> project]], ArrayLengthConstraint(field))

LinkConstraints(field, project) ==
  ObjectAssign([entries |-> [projectId |-> project]], ArrayLengthConstraint(field))

ListConstraints(field) ==
  ObjectAssign([arrayOfStrings |-> TRUE], ArrayLengthConstraint(field))

\* the if / else-if chain on field.fieldType, in the order of the source
KindConstraints(field, project) ==
  IF field.fieldType = "TEXT" THEN TextConstraints(field)
  ELSE IF field.fieldType = "TEXT" \/ field.fieldType = "LONGTEXT" THEN LengthConstraints(field)
  ELSE IF field.fieldType = "DATE" THEN DateConstraints(field)
  ELSE IF field.fieldType = "BOOLEAN" THEN BooleanConstraints(field)
  ELSE IF field.fieldType = "NUMBER" THEN NumberConstraints(field)
  ELSE IF field.fieldType = "CHOICE" THEN ChoiceConstraints(field)
  ELSE IF field.fieldType = "COLOR" THEN ColorConstraints(field)
  ELSE IF field.fieldType = "MEDIA" THEN MediaConstraints(field, project)
  ELSE IF field.fieldType = "LINK" THEN LinkConstraints(field, project)
  ELSE IF field.fieldType = "LIST" THEN ListConstraints(field)
  ELSE NoConstraints

\* the fieldConstraints object of one loop iteration
FieldConstraints(field, project) ==
  ObjectAssign(PresenceConstraint(field), KindConstraints(field, project))

\* the loop without its `continue`
SkippedNever(field) == FALSE

\* if (field.disabled) continue
Skipped(field) == field.disabled

\* the for loop over this.fields, from field i on
RECURSIVE BuildConstraints(_, _, _, _)
BuildConstraints(fs, i, project, acc) ==
  IF i > Len(fs) THEN acc
  ELSE IF Skipped(fs[i]) THEN BuildConstraints(fs, i + 1, project, acc)
  ELSE BuildConstraints(fs, i + 1, project,
         [k \in DOMAIN acc \cup {fs[i].name} |->
            IF k = fs[i].name THEN FieldConstraints(fs[i], project) ELSE acc[k]])

NoRules == [k \in {} |-> NoConstraints]

\* the records a lookup finds: <<id, project>>
MediaStore == {<<7, 1>>, <<8, 2>>}
EntryStore == {<<7, 1>>, <<9, 1>>}

\* Media.existsInProject / Entry.existsInProject behind the media and entries
\* validators: every id of the value is a record of the project
ExistInProject(validator, value, project) ==
  /\ value.type = "array"
  /\ \A i \in DOMAIN value.items :
       /\ value.items[i].type = "number"
       /\ value.items[i].tenths % 10 = 0
       /\ <<value.items[i].tenths \div 10, project>> \in
            (IF validator = "media" THEN MediaStore ELSE EntryStore)

\* the asynchronous validators validate.async started: one per attribute
\* that has a value and a media or entries rule
Started(attributes, ruleset) ==
  {av \in UNION {{<<a, v>> : v \in DOMAIN ruleset[a] \cap AsyncValidators} : a \in DOMAIN ruleset} :
     IsDefined(Get(attributes, av[1]))}

\* validateEntryFields rejecting as soon as a synchronous validator has failed,
\* while the lookups it started are still out
ValidateEntryFieldsFailFast ==
  /\ vpc = "start"
  /\ constraints' = BuildConstraints(fields, 1, projectId, NoRules)
  /\ errors' = Validate(entry, constraints')
  /\ pending' = Started(entry, constraints')
  /\ vpc' = IF errors' # {} THEN "settled" ELSE "waiting"
  /\ result' = IF errors' # {} THEN "rejected" ELSE result
  /\ UNCHANGED <<defVars, fields, entry, projectId, failed>>

\* validateEntryFields up to the point where validate.async waits
ValidateEntryFields ==
  /\ vpc = "start"
  /\ constraints' = BuildConstraints(fields, 1, projectId, NoRules)
  /\ errors' = Validate(entry, constraints')
  /\ pending' = Started(entry, constraints')
  /\ vpc' = "waiting"
  /\ UNCHANGED <<defVars, fields, entry, projectId, failed, result>>

\* one lookup answers
LookupSettles ==
  /\ vpc = "waiting"
  /\ \E av \in pending :
       /\ pending' = pending \ {av}
       /\ errors' = IF ExistInProject(av[2], Get(entry, av[1]), constraints[av[1]][av[2]].projectId)
                    THEN errors
                    ELSE errors \cup {av}
  /\ UNCHANGED <<defVars, fields, entry, projectId, constraints, failed, result, vpc>>

\* one lookup throws or rejects: no violation is recorded for its attribute
LookupFails ==
  /\ vpc = "waiting"
  /\ \E av \in pending :
       /\ pending' = pending \ {av}
       /\ failed' = failed \cup {av}
  /\ UNCHANGED <<defVars, fields, entry, projectId, constraints, errors, result, vpc>>

\* how the promise of validate.async settles once every validator has answered:
\* with the failure of a lookup, with the errors, or with the attributes
AsyncSettlement ==
  IF failed # {} THEN "fatal" ELSE IF errors = {} THEN "resolved" ELSE "rejected"

\* a catch around validate.async that turns a failed lookup into success
ReturnedPromiseCaught(settlement) ==
  IF settlement = "fatal" THEN "resolved" ELSE settlement

\* return validate.async(fields, constraints): the promise is handed on as it is
ReturnedPromise(settlement) == settlement

\* every validator has answered: the returned promise settles
Settle ==
  /\ vpc = "waiting"
  /\ pending = {}
  /\ result' = ReturnedPromise(AsyncSettlement)
  /\ vpc' = "settled"
  /\ UNCHANGED <<defVars, fields, entry, projectId, constraints, pending, errors, failed>>

---------------------------------------------------------------------------
(* Stored entry types and submitted entries *)

ValueNames == <<"published", "rating">>
ProjectInputs == {1, 2}

Stored(tag, extra) ==
  {ObjectAssign(ObjectAssign(Common(tag, ""), [required |-> r, disabled |-> d]), extra) :
     r \in BOOLEAN, d \in BOOLEAN}

StoredInputs ==
  UNION {
    UNION {Stored("TEXT", [minLength |-> 2, maxLength |-> 12, format |-> f]) :
             f \in {"plaintext", "uri", "email"}},
    UNION {Stored("LONGTEXT", [minLength |-> 2, maxLength |-> 12, format |-> f]) :
             f \in {"plaintext", "markdown"}},
    Stored("BOOLEAN", [labelTrue |-> "Yes", labelFalse |-> "No"]),
    UNION {Stored("NUMBER", [minValue |-> 0, maxValue |-> 5, format |-> f]) :
             f \in {"number", "integer"}},
    UNION {Stored("DATE", [format |-> f]) : f \in {"datetime", "date"}},
    UNION {Stored("CHOICE", [choices |-> <<"a", "b", "c">>, format |-> f]) :
             f \in {"single", "multiple"}},
    UNION {Stored("COLOR", [format |-> f]) : f \in {"rgb", "rgba"}},
    Stored("MEDIA", [minLength |-> 1, maxLength |-> 2]),
    Stored("LINK", [minLength |-> 1, maxLength |-> 2]),
    Stored("LIST", [minLength |-> 1, maxLength |-> 2])
  }

LongString == "abcdefghijklmnop"

ValueInputs(tag) ==
  CASE tag \in {"TEXT", "LONGTEXT"} ->
         {Undefined, Str("a"), Str("http://a.io"), Str("a@b.io"), Str(LongString)}
    [] tag = "BOOLEAN" -> {Undefined, Bool(TRUE), Str("a")}
    [] tag = "NUMBER"  -> {Undefined, Num(3), Num(5), Frac(25), Frac(55)}
    [] tag = "DATE"    -> {Undefined, Str("2018-01-01")}
    [] tag = "CHOICE"  ->
         {Undefined, Arr(<<Str("a")>>), Arr(<<Str("a"), Str("b")>>), Arr(<<Str("d")>>),
          Arr(<<Str("a"), Str("a")>>), Arr(<<>>)}
    [] tag = "COLOR"   -> {Undefined, Str("#a1B2c3")}
    [] tag \in {"MEDIA", "LINK"} ->
         {Undefined, Arr(<<Num(7)>>), Arr(<<Num(7), Num(8)>>), Arr(<<Num(7), Num(9), Num(7)>>)}
    [] tag = "LIST"    -> {Undefined, Arr(<<Str("a")>>), Arr(<<Num(7)>>)}
    [] OTHER           -> {Undefined}

\* a stored field together with the value submitted for it
CaseInputs == UNION {{<<f, v>> : v \in ValueInputs(f.fieldType)} : f \in StoredInputs}

---------------------------------------------------------------------------
(* Specification of the definition-time validation *)

NoObject == [k \in {} |-> Undefined]

ValueIdle ==
  /\ fields = <<>>
  /\ entry = NoObject
  /\ projectId = 0
  /\ constraints = NoRules
  /\ pending = {}
  /\ errors = {}
  /\ failed = {}
  /\ result = "none"
  /\ vpc = "idle"

Init ==
  /\ \E n \in NameInputs, k \in 0..MaxFields : \E fs \in [1..k -> FieldInputs] :
       json = Definition(n, fs)
  /\ outcome = NoOutcome
  /\ pc = "start"
  /\ ValueIdle

Next == BeforeValidate \/ JsonSchemaValidate

Spec == Init /\ [][Next]_vars

---------------------------------------------------------------------------
(* Specification of the value-time validation *)

DefinitionIdle ==
  /\ json = Definition("blog", <<>>)
  /\ outcome = NoOutcome
  /\ pc = "idle"

InitValue ==
  /\ DefinitionIdle
  /\ \E n \in DOMAIN ValueNames : \E cs \in [1..n -> CaseInputs] :
       /\ fields = [i \in 1..n |-> ObjectAssign(cs[i][1], [name |-> ValueNames[i]])]
       /\ entry = [k \in {ValueNames[i] : i \in {j \in 1..n : IsDefined(cs[j][2])}} |->
                     cs[CHOOSE i \in 1..n : ValueNames[i] = k][2]]
  /\ projectId \in ProjectInputs
  /\ constraints = NoRules
  /\ pending = {}
  /\ errors = {}
  /\ failed = {}
  /\ result = "none"
  /\ vpc = "start"

NextValue == ValidateEntryFields \/ LookupSettles \/ LookupFails \/ Settle

SpecValue == InitValue /\ [][NextValue]_vars

---------------------------------------------------------------------------
(* Properties of the definition-time validation *)

\* $beforeValidate has run on json
Validated == pc \in {"rejected", "schema", "accepted"}

TopLevelOk(j) == Validate(AsObject(j), entryTypeConstraints) = {}

DuplicateNames(j) ==
  \E i, k \in DOMAIN j.fields : i # k /\ j.fields[i].name = j.fields[k].name

UnknownAt(j) == {i \in DOMAIN j.fields : j.fields[i].fieldType \notin fieldTypes}

\* the violations of one field against the table of its own kind
FieldViolations(field) == Validate(AsObject(field), fieldTypeConstraints[field.fieldType])

Offending(j) == {i \in DOMAIN j.fields : FieldViolations(j.fields[i]) # {}}

Min(S) == CHOOSE x \in S : \A y \in S : x <= y

\* C1: a definition that passes the top-level check and has two fields of the
\* same name is refused with 'Field names must be unique' and no per-field
\* mapping, whatever the kinds of its fields and whatever else is wrong with them.
C1_DuplicateNamesRefused ==
  (Validated /\ TopLevelOk(json) /\ DuplicateNames(json)) =>
    outcome = ValidationError("Field names must be unique", {}, NoFieldErrors)

\* a refused definition whose two same-named fields have an unknown kind and a
\* violated constraint
C1_Witness ==
  /\ pc = "rejected"
  /\ TopLevelOk(json)
  /\ \E i, k \in DOMAIN json.fields :
       /\ i < k
       /\ json.fields[i].name = json.fields[k].name
       /\ json.fields[i].fieldType \notin fieldTypes
       /\ json.fields[k].fieldType \in fieldTypes
       /\ FieldViolations(json.fields[k]) # {}
  /\ outcome.message = "Field names must be unique"

\* C2: with unique names, a field of unknown fieldType makes $beforeValidate
\* throw the single error naming the fieldType of the first such field, never
\* the accumulated mapping, even after earlier fields violated their constraints.
C2_UnknownFieldTypeFatal ==
  (Validated /\ TopLevelOk(json) /\ ~DuplicateNames(json) /\ UnknownAt(json) # {}) =>
    outcome = ValidationError(
                "'" \o json.fields[Min(UnknownAt(json))].fieldType \o "' is not a valid field type",
                {}, NoFieldErrors)

\* the unknown kind comes second, after a field that violates its constraints
C2_Witness ==
  /\ pc = "rejected"
  /\ TopLevelOk(json)
  /\ ~DuplicateNames(json)
  /\ Len(json.fields) >= 2
  /\ json.fields[1].fieldType \in fieldTypes
  /\ FieldViolations(json.fields[1]) # {}
  /\ json.fields[2].fieldType = "BOGUS"
  /\ outcome.message = "'BOGUS' is not a valid field type"

\* C3: with unique names and known kinds only, $beforeValidate throws the
\* {fields: mapping} error keyed by exactly the names of all offending fields,
\* and returns exactly when no field offends.
C3_FieldErrorsAccumulated ==
  (Validated /\ TopLevelOk(json) /\ ~DuplicateNames(json) /\ UnknownAt(json) = {}) =>
    IF Offending(json) = {}
    THEN outcome = Returned
    ELSE /\ outcome.threw
         /\ outcome.message = ""
         /\ outcome.errors = {}
         /\ DOMAIN outcome.fields = {json.fields[i].name : i \in Offending(json)}
         /\ \A i \in Offending(json) :
              outcome.fields[json.fields[i].name] = FieldViolations(json.fields[i])

\* two offending fields, both reported
C3_Witness ==
  /\ pc = "rejected"
  /\ TopLevelOk(json)
  /\ ~DuplicateNames(json)
  /\ UnknownAt(json) = {}
  /\ Cardinality(Offending(json)) >= 2
  /\ Cardinality(DOMAIN outcome.fields) >= 2

ReachesFieldPass(j) == TopLevelOk(j) /\ ~DuplicateNames(j) /\ UnknownAt(j) = {}

OrderingError == <<"minLength", "lessThanAttribute">>

\* C4: in a definition that reaches the per-field pass, a TEXT, LONGTEXT, MEDIA,
\* LINK or LIST field with minLength >= maxLength gets a field error under its
\* name (the ordering violation); one with minLength < maxLength gets no
\* ordering violation.
C4_MinLengthBelowMaxLength ==
  (Validated /\ ReachesFieldPass(json)) =>
    \A i \in DOMAIN json.fields :
      json.fields[i].fieldType \in LengthKinds =>
        IF json.fields[i].minLength >= json.fields[i].maxLength
        THEN /\ outcome.threw
             /\ json.fields[i].name \in DOMAIN outcome.fields
             /\ OrderingError \in outcome.fields[json.fields[i].name]
        ELSE \/ json.fields[i].name \notin DOMAIN outcome.fields
             \/ OrderingError \notin outcome.fields[json.fields[i].name]

\* a MEDIA field with minLength > maxLength reported beside a field in order
C4_Witness ==
  /\ pc = "rejected"
  /\ ReachesFieldPass(json)
  /\ \E i, k \in DOMAIN json.fields :
       /\ json.fields[i].fieldType = "MEDIA"
       /\ json.fields[i].minLength > json.fields[i].maxLength
       /\ OrderingError \in outcome.fields[json.fields[i].name]
       /\ json.fields[k].fieldType = "LIST"
       /\ json.fields[k].minLength < json.fields[k].maxLength
       /\ json.fields[k].name \notin DOMAIN outcome.fields

\* C5 as claimed: with everything else valid, the definition is accepted
\* exactly when its name has 1 to 64 characters.
C5_NameOneToSixtyFour ==
  (pc \in {"accepted", "rejected"} /\ ReachesFieldPass(Definition("blog", json.fields))
     /\ Offending(json) = {}) =>
    (pc = "accepted" <=> (Len(json.name) >= 1 /\ Len(json.name) <= 64))

---------------------------------------------------------------------------
(* Properties of the value-time validation *)

\* validateEntryFields has built its ruleset and run the synchronous validators
Built == vpc \in {"waiting", "settled"}

Enabled(i) == ~fields[i].disabled

ErrorsOf(name) == {av \in errors : av[1] = name}

Submitted(i) == Get(entry, fields[i].name)

\* C6: a disabled field gets no rule and no violation, whatever its kind, its
\* required flag and the value submitted for it.
C6_DisabledNeverValidated ==
  Built =>
    \A i \in DOMAIN fields :
      fields[i].disabled =>
        /\ fields[i].name \notin DOMAIN constraints
        /\ ErrorsOf(fields[i].name) = {}
        /\ \A av \in pending : av[1] # fields[i].name

\* a required, disabled TEXT field without a value, and the call resolves
C6_Witness ==
  /\ vpc = "settled"
  /\ result = "resolved"
  /\ \E i \in DOMAIN fields :
       /\ fields[i].disabled
       /\ fields[i].required
       /\ fields[i].fieldType = "TEXT"
       /\ fields[i].name \notin DOMAIN entry

\* C7 as claimed: every enabled TEXT or LONGTEXT field has the string-length
\* rule [minLength, maxLength], so a string outside it is a violation.
C7_TextLengthRule ==
  Built =>
    \A i \in DOMAIN fields :
      (Enabled(i) /\ fields[i].fieldType \in {"TEXT", "LONGTEXT"}) =>
        /\ "length" \in DOMAIN constraints[fields[i].name]
        /\ constraints[fields[i].name].length =
             [minimum |-> fields[i].minLength, maximum |-> fields[i].maxLength]
        /\ (Submitted(i).type = "string"
              /\ (Len(Submitted(i).str) < fields[i].minLength
                    \/ Len(Submitted(i).str) > fields[i].maxLength))
             => <<fields[i].name, "length">> \in errors

\* C8: an enabled field has the presence rule exactly when it is required,
\* whatever its kind and format; a required field without a value is a presence
\* violation, and a field that is not required never is.
C8_PresenceIffRequired ==
  Built =>
    \A i \in DOMAIN fields :
      Enabled(i) =>
        /\ "presence" \in DOMAIN constraints[fields[i].name] <=> fields[i].required
        /\ (fields[i].required /\ fields[i].name \notin DOMAIN entry)
             => <<fields[i].name, "presence">> \in errors
        /\ ~fields[i].required => <<fields[i].name, "presence">> \notin errors

\* {rating: 3} against a required BOOLEAN published and a NUMBER rating
C8_Witness ==
  /\ vpc = "settled"
  /\ result = "rejected"
  /\ Len(fields) = 2
  /\ fields[1].fieldType = "BOOLEAN" /\ fields[1].required /\ Enabled(1)
  /\ fields[2].fieldType = "NUMBER" /\ ~fields[2].required /\ Enabled(2)
  /\ DOMAIN entry = {"rating"}
  /\ entry["rating"] = Num(3)
  /\ errors = {<<"published", "presence">>}

\* C9: an enabled CHOICE field always has the membership rule on its choices;
\* format single adds array length exactly 1, format multiple adds array length
\* at least 1 and uniqueness.  An array with an element outside choices is a
\* violation, and so is, under single, an array of any length but 1.
C9_ChoiceRules ==
  Built =>
    \A i \in DOMAIN fields :
      (Enabled(i) /\ fields[i].fieldType = "CHOICE") =>
        LET rules == constraints[fields[i].name]
            value == Submitted(i)
        IN  /\ "choicesUnion" \in DOMAIN rules
            /\ rules.choicesUnion = [choices |-> fields[i].choices]
            /\ fields[i].format = "single" =>
                 /\ rules.arrayLength = [is |-> 1]
                 /\ "uniqueArray" \notin DOMAIN rules
            /\ fields[i].format = "multiple" =>
                 /\ rules.arrayLength = [minimum |-> 1]
                 /\ "uniqueArray" \in DOMAIN rules
                 /\ rules.uniqueArray
            /\ (value.type = "array"
                  /\ \E k \in DOMAIN value.items :
                       value.items[k].str \notin Range(fields[i].choices))
                 => <<fields[i].name, "choicesUnion">> \in errors
            /\ (value.type = "array" /\ fields[i].format = "single" /\ Len(value.items) # 1)
                 => <<fields[i].name, "arrayLength">> \in errors
            /\ (value.type = "array" /\ Len(value.items) = 1
                  /\ value.items[1].str \in Range(fields[i].choices))
                 => ErrorsOf(fields[i].name) = {}

\* choices a, b, c under format multiple: the value [d] is refused
C9_Witness ==
  /\ vpc = "settled"
  /\ result = "rejected"
  /\ \E i \in DOMAIN fields :
       /\ Enabled(i)
       /\ fields[i].fieldType = "CHOICE"
       /\ fields[i].format = "multiple"
       /\ Submitted(i) = Arr(<<Str("d")>>)
       /\ ErrorsOf(fields[i].name) = {<<fields[i].name, "choicesUnion">>}

\* C10: an enabled NUMBER field has the numeric rule with the inclusive bounds
\* minValue and maxValue, integer-only exactly when its format is integer; a
\* number within the bounds passes unless it is fractional under format integer,
\* and a number outside them is a violation.
C10_NumberRule ==
  Built =>
    \A i \in DOMAIN fields :
      (Enabled(i) /\ fields[i].fieldType = "NUMBER") =>
        LET rule == constraints[fields[i].name].numericality
            value == Submitted(i)
            within == /\ value.tenths >= 10 * fields[i].minValue
                      /\ value.tenths <= 10 * fields[i].maxValue
            whole == value.tenths % 10 = 0
        IN  /\ rule.greaterThanOrEqualTo = fields[i].minValue
            /\ rule.lessThanOrEqualTo = fields[i].maxValue
            /\ "onlyInteger" \in DOMAIN rule <=> fields[i].format = "integer"
            /\ "onlyInteger" \in DOMAIN rule => rule.onlyInteger
            /\ DOMAIN rule \subseteq {"greaterThanOrEqualTo", "lessThanOrEqualTo", "onlyInteger"}
            /\ value.type = "number" =>
                 (<<fields[i].name, "numericality">> \in errors
                    <=> (~within \/ (fields[i].format = "integer" /\ ~whole)))

\* rating 5.5 against minValue 0, maxValue 5, format integer
C10_Witness ==
  /\ vpc = "settled"
  /\ result = "rejected"
  /\ \E i \in DOMAIN fields :
       /\ Enabled(i)
       /\ fields[i].fieldType = "NUMBER"
       /\ fields[i].format = "integer"
       /\ fields[i].minValue = 0 /\ fields[i].maxValue = 5
       /\ Submitted(i) = Frac(55)
       /\ <<fields[i].name, "numericality">> \in errors

\* the referential validator of a kind
Referential(kind) == IF kind = "MEDIA" THEN "media" ELSE "entries"

InBounds(i) ==
  /\ Submitted(i).type = "array"
  /\ Len(Submitted(i).items) >= fields[i].minLength
  /\ Len(Submitted(i).items) <= fields[i].maxLength

\* C11: an enabled MEDIA (LINK) field has the array-length rule
\* [minLength, maxLength] and exactly one referential rule, media (entries),
\* scoped with the projectId of the call.  When the lookups have answered, a
\* value with an id that is not in the project is a referential violation of
\* the field, and a value within the bounds whose ids all are passes.
C11_ReferentialRule ==
  Built =>
    \A i \in DOMAIN fields :
      (Enabled(i) /\ fields[i].fieldType \in {"MEDIA", "LINK"}) =>
        LET rules == constraints[fields[i].name]
            ref == Referential(fields[i].fieldType)
        IN  /\ DOMAIN rules \cap AsyncValidators = {ref}
            /\ rules[ref] = [projectId |-> projectId]
            /\ rules.arrayLength =
                 [minimum |-> fields[i].minLength, maximum |-> fields[i].maxLength]
            /\ (result \in {"resolved", "rejected"} /\ IsDefined(Submitted(i))) =>
                 /\ <<fields[i].name, ref>> \in errors
                      <=> ~ExistInProject(ref, Submitted(i), projectId)
                 /\ (ExistInProject(ref, Submitted(i), projectId) /\ InBounds(i))
                      => ErrorsOf(fields[i].name) = {}

\* photos [7, 8] in a project that has media 7 only is refused, beside a
\* second MEDIA field whose value [7] passes
C11_Witness ==
  /\ vpc = "settled"
  /\ result = "rejected"
  /\ projectId = 1
  /\ Len(fields) = 2
  /\ \A i \in DOMAIN fields : Enabled(i) /\ fields[i].fieldType = "MEDIA"
  /\ Submitted(1) = Arr(<<Num(7), Num(8)>>)
  /\ Submitted(2) = Arr(<<Num(7)>>)
  /\ errors = {<<fields[1].name, "media">>}

\* the violations of the submitted entry, lookups included
AllViolations ==
  Validate(entry, constraints)
    \cup {av \in Started(entry, constraints) :
            ~ExistInProject(av[2], Get(entry, av[1]), projectId)}

\* C12: the promise returned by validateEntryFields settles only when the
\* evaluation of every enabled field is over, lookups included, in whatever
\* order they answer; a failing field does not settle it earlier, and the
\* errors it rejects with name every field that has a violation.
C12_SettlesAfterEveryField ==
  result # "none" =>
    /\ pending = {}
    /\ \A i \in DOMAIN fields : Enabled(i) => fields[i].name \in DOMAIN constraints
    /\ failed = {} =>
         /\ errors = AllViolations
         /\ result = "rejected" <=> AllViolations # {}

\* a field that fails at once beside a field whose lookup fails later: both
\* are in the errors
C12_Witness ==
  /\ vpc = "settled"
  /\ result = "rejected"
  /\ Len(fields) = 2
  /\ fields[1].fieldType = "BOOLEAN"
  /\ fields[2].fieldType = "LINK"
  /\ errors = {<<fields[1].name, "boolean">>, <<fields[2].name, "entries">>}

\* C13: when a lookup of a MEDIA or LINK field throws or rejects, the call
\* fails with a fatal error that is not the field-error mapping: the failure is
\* no violation of that field, and the call does not succeed.
C13_LookupFailureFatal ==
  (vpc = "settled" /\ failed # {}) =>
    /\ result = "fatal"
    /\ failed \cap errors = {}

\* the lookup of one field failed while another field has a violation
C13_Witness ==
  /\ vpc = "settled"
  /\ result = "fatal"
  /\ \E av \in failed : av[2] = "media"
  /\ errors # {}
  /\ \A av \in failed : ErrorsOf(av[1]) = {}

\* the attributes each kind adds to the common ones
KindAttributes ==
  [TEXT     |-> {"minLength", "maxLength", "format"},
   LONGTEXT |-> {"minLength", "maxLength", "format"},
   BOOLEAN  |-> {"labelTrue", "labelFalse"},
   NUMBER   |-> {"minValue", "maxValue", "format"},
   DATE     |-> {"format"},
   CHOICE   |-> {"choices", "format"},
   COLOR    |-> {"format"},
   MEDIA    |-> {"minLength", "maxLength"},
   LINK     |-> {"minLength", "maxLength"},
   LIST     |-> {"minLength", "maxLength"}]

SixCommon == {"fieldType", "name", "label", "description", "required", "disabled"}

ShapesOf(kind) == {i \in DOMAIN oneOf : oneOf[i].pattern = kind}

\* C14: fields.items.oneOf of EntryType.jsonSchema has ten shapes, one for
\* each kind, matched by the exact fieldType tag; each shape forbids additional
\* properties, requires exactly its declared properties, and declares the six
\* common attributes and the attributes of its kind, which are also the
\* attribute names of fieldTypeConstraints for that kind.  A definition that
\* is accepted has every field in the shape of its kind, with exactly those
\* attributes.
C14_TenClosedShapes ==
  /\ Len(oneOf) = Cardinality(fieldTypes)
  /\ Cardinality(fieldTypes) = Cardinality(DOMAIN KindAttributes)
  /\ \A kind \in DOMAIN KindAttributes : Cardinality(ShapesOf(kind)) = 1
  /\ \A i \in DOMAIN oneOf :
       LET shape == oneOf[i]
       IN  /\ shape.pattern \in fieldTypes
           /\ shape.additionalProperties = FALSE
           /\ Range(shape.required) = shape.properties
           /\ Len(shape.required) = Cardinality(shape.properties)
           /\ shape.properties = SixCommon \cup KindAttributes[shape.pattern]
           /\ shape.properties = DOMAIN fieldTypeConstraints[shape.pattern]
  /\ pc = "accepted" =>
       \A k \in DOMAIN json.fields :
         \E i \in DOMAIN oneOf :
           /\ oneOf[i].pattern = json.fields[k].fieldType
           /\ DOMAIN json.fields[k] = Range(oneOf[i].required)

\* an accepted definition with a DATE field and a NUMBER field
C14_Witness ==
  /\ pc = "accepted"
  /\ Len(json.fields) = 2
  /\ json.fields[1].fieldType = "DATE"
  /\ json.fields[2].fieldType = "NUMBER"
  /\ \A k \in DOMAIN json.fields : SchemaItemOk(json.fields[k])

====
